---- MODULE Spec2Model ----
(***************************************************************************)
(* Capture/upload orchestration of the EmoTutor overlay (src/App.tsx):     *)
(* the React state of App, its refs, the effects that start capture loops, *)
(* every captureLoop activation with the closure it captured, and each     *)
(* suspension point of captureAndProcess.                                  *)
(***************************************************************************)
EXTENDS Integers, Sequences, FiniteSets, Bags, TLC

\* ---------------------------------------------------------------- bounds
MaxLoops == 2       \* captureLoop activations tracked at the same time
MaxBoxes == 2       \* boxes one detectFaces call returns
MaxMessages == 1    \* successful uploads, i.e. feedback messages in the chat list
MaxDetections == 9  \* boxes in one list that is ranked
MaxBlobSize == 3    \* largest blob the encoder produces; the byte budget is 2
MaxNmsBoxes == 3    \* boxes in one list given to nonMaxSuppression
MaxBuilds == 2      \* calls of prepareGrids on one instance
DetModelWidth == 16 \* model input width the decoder is followed with (640 shipped)
DetModelHeight == 8 \* model input height the decoder is followed with (640 shipped)
MaxDetectCalls == 2 \* calls of detectFaces on one instance
MaxBatch == 3       \* faces in one call of analyzeFaces

\* ------------------------------------------------------ program constants
FaceCap == 8        \* .slice(0, 8)

\* AppStatus
Initializing == "Initializing"
Idle == "Idle"
Detecting == "Detecting"
Uploading == "Uploading"
Error == "Error"
AppStatus == {Initializing, Idle, Detecting, Uploading, Error}

Null == "null"
DefaultContext == "AI Summit"
Contexts == {DefaultContext, "Lecture"}
\* readings of new Date().toLocaleTimeString()
Times == {"10:00:00"}

MsgStillInitializing == "Model is still initializing. Please wait a moment."
MsgModelLoad == "Failed to load face detection model. Please refresh."
MsgUnknown == "An unknown error occurred."
MsgNotInitialized == "Detection service not initialized."
MsgNoFeedback == "No feedback returned."

VARIABLES
    contextText, isEnabled, isStarting, status, lastUpload, error, emotions,
    showOnboarding, messages,          \* useState cells of App
    isUploadingRef, runLoopRef, enabledRef,   \* useRef cells of App
    phase,         \* "unmounted" | "loading" | "ready" | "failed": mount + model load
    loops,         \* bag of live captureLoop activations
    rank,          \* one evaluation of the ranking of lines 117-120
    crop,          \* one call of cropResizeToBlob: its options and locals
    nms,           \* one call of nonMaxSuppression: its argument and locals
    det,           \* a DetectionService instance and its latest detectFaces call
    grid,          \* the grid fields of a DetectionService under prepareGrids
    req            \* one call of analyzeFaces: its arguments and its form data

stateVars == <<contextText, isEnabled, isStarting, status, lastUpload, error,
               emotions, showOnboarding, messages>>
refVars == <<isUploadingRef, runLoopRef, enabledRef>>
appVars == <<stateVars, refVars, phase, loops>>
\* the function calls that are followed on their own
callVars == <<rank, crop, nms, det, grid, req>>
vars == <<appVars, callVars>>

\* ------------------------------------------------------------- helpers
Top3Payloads == {"E1", Null}      \* raw.top3_aggregate, possibly missing
Feedbacks == {"F1", Null}         \* raw.gemini_feedback, possibly missing

Min(a, b) == IF a < b THEN a ELSE b

\* one captureLoop activation: its position, the closure values of the
\* captureAndProcess it captured, and the locals of the cycle it is running
Rec(pc, ctx, starting) ==
    [pc |-> pc, ctx |-> ctx, starting |-> starting,
     faces |-> 0, pending |-> {}, encoded |-> {}, batch |-> {}]

Live == BagToSet(loops)
At(pcs) == {r \in Live : r.pc \in pcs}
Swap(r, r2) == (loops (-) SetToBag({r})) (+) SetToBag({r2})
Drop(r) == loops (-) SetToBag({r})

CyclePcs == {"snapshot", "detect", "encode", "upload"}
InCycle == At(CyclePcs)
NumInCycle == BagCardinality([r \in InCycle |-> loops[r]])

\* the values the effects of App depend on: [isEnabled] (line 53) and
\* [isEnabled, status, showOnboarding, captureAndProcess] (line 207), where
\* captureAndProcess is rebuilt for [contextText, isStarting] (line 175)
Deps ==
    [isEnabled |-> isEnabled, status |-> status, showOnboarding |-> showOnboarding,
     contextText |-> contextText, isStarting |-> isStarting]

\* no call of the function is being followed
NoCall == [pc |-> "none"]

AppInit ==
    /\ contextText = DefaultContext
    /\ isEnabled = FALSE
    /\ isStarting = FALSE
    /\ status = Initializing
    /\ lastUpload = Null
    /\ error = Null
    /\ emotions = Null
    /\ showOnboarding = FALSE
    /\ messages = <<>>
    /\ isUploadingRef = FALSE
    /\ runLoopRef = FALSE
    /\ enabledRef = FALSE
    /\ phase = "unmounted"
    /\ loops = EmptyBag

Init ==
    /\ AppInit
    /\ rank = NoCall
    /\ crop = NoCall
    /\ nms = NoCall
    /\ det = NoCall
    /\ grid = NoCall
    /\ req = NoCall

\* ------------------------------------------------- render commit + effects
\* The commit that follows the state updates of a step. old and new are Deps
\* before and after the step, rl and bag are runLoopRef.current and the live
\* activations as the step left them.

\* cleanup of the main-loop effect (lines 204-206)
AfterCleanup(old, new, rl) == IF new # old THEN FALSE ELSE rl

\* the enabledRef effect (lines 48-53)
AfterEnabledEffect(old, new, rl) ==
    IF new.isEnabled # old.isEnabled /\ ~new.isEnabled
    THEN FALSE ELSE AfterCleanup(old, new, rl)

\* line 179
StartsLoop(old, new, rl) ==
    /\ new # old
    /\ new.isEnabled
    /\ new.status # Initializing
    /\ ~new.showOnboarding
    /\ ~AfterEnabledEffect(old, new, rl)

\* lines 180-201: the activation starts at its first timer; activations
\* beyond MaxLoops are not tracked (their first timer has not fired)
Started(new, bag) ==
    IF BagCardinality(bag) < MaxLoops
    THEN bag (+) SetToBag({Rec("yield0", new.contextText, new.isStarting)})
    ELSE bag

Commit(bag, rl) ==
    /\ enabledRef' = IF isEnabled' # isEnabled THEN isEnabled' ELSE enabledRef
    /\ IF StartsLoop(Deps, Deps', rl)
       THEN /\ runLoopRef' = TRUE
            /\ loops' = Started(Deps', bag)
       ELSE /\ runLoopRef' = AfterEnabledEffect(Deps, Deps', rl)
            /\ loops' = bag

\* first commit: the mount effects (lines 26-28, 48-53, 55-74, 178-207)
Mount ==
    /\ phase = "unmounted"
    /\ phase' = "loading"
    /\ \E hasOnboarded \in BOOLEAN : showOnboarding' = ~hasOnboarded
    /\ UNCHANGED <<contextText, isEnabled, isStarting, status, lastUpload, error,
                   emotions, messages, isUploadingRef, callVars>>
    /\ Commit(loops, FALSE)

\* init(): detectionService.initialize() resolves or rejects (lines 61-71)
InitResolve ==
    /\ phase = "loading"
    /\ \E ok \in BOOLEAN :
         IF ok
         THEN /\ phase' = "ready"
              /\ status' = Idle
              /\ error' = error
         ELSE /\ phase' = "failed"
              /\ status' = Error
              /\ error' = MsgModelLoad
    /\ UNCHANGED <<contextText, isEnabled, isStarting, lastUpload, emotions,
                   showOnboarding, messages, isUploadingRef, callVars>>
    /\ Commit(loops, runLoopRef)

\* ------------------------------------------------------------ user events
HandleOnboardingComplete ==
    /\ phase # "unmounted"
    /\ showOnboarding
    /\ showOnboarding' = FALSE
    /\ UNCHANGED <<contextText, isEnabled, isStarting, status, lastUpload, error,
                   emotions, messages, isUploadingRef, phase, callVars>>
    /\ Commit(loops, runLoopRef)

\* handleToggle without the test of lines 211-214
HandleToggleUnguarded(enabled) ==
    /\ IF enabled
       THEN /\ isStarting' = TRUE
            /\ isEnabled' = TRUE
            /\ UNCHANGED <<status, error, emotions>>
       ELSE /\ isEnabled' = FALSE
            /\ status' = Idle
            /\ error' = Null
            /\ emotions' = Null
            /\ isStarting' = FALSE
    /\ UNCHANGED <<contextText, lastUpload, showOnboarding, messages,
                   isUploadingRef, phase, callVars>>
    /\ Commit(loops, runLoopRef)

\* handleToggle emptying the chat when capture is switched off
HandleToggleClearsMessages(enabled) ==
    /\ IF enabled /\ status = Initializing
       THEN /\ error' = MsgStillInitializing
            /\ UNCHANGED <<isEnabled, isStarting, status, emotions, messages>>
       ELSE IF enabled
       THEN /\ isStarting' = TRUE
            /\ isEnabled' = TRUE
            /\ UNCHANGED <<status, error, emotions, messages>>
       ELSE /\ isEnabled' = FALSE
            /\ status' = Idle
            /\ error' = Null
            /\ emotions' = Null
            /\ isStarting' = FALSE
            /\ messages' = <<>>
    /\ UNCHANGED <<contextText, lastUpload, showOnboarding,
                   isUploadingRef, phase, callVars>>
    /\ Commit(loops, runLoopRef)

\* App.handleToggle (lines 209-229)
HandleToggle(enabled) ==
    /\ IF enabled /\ status = Initializing
       THEN /\ error' = MsgStillInitializing
            /\ UNCHANGED <<isEnabled, isStarting, status, emotions>>
       ELSE IF enabled
       THEN /\ isStarting' = TRUE
            /\ isEnabled' = TRUE
            /\ UNCHANGED <<status, error, emotions>>
       ELSE /\ isEnabled' = FALSE
            /\ status' = Idle
            /\ error' = Null
            /\ emotions' = Null
            /\ isStarting' = FALSE
    /\ UNCHANGED <<contextText, lastUpload, showOnboarding, messages,
                   isUploadingRef, phase, callVars>>
    /\ Commit(loops, runLoopRef)

\* OverlayPanel.handleToggleChange: the switch is inert while isStarting
HandleToggleChange ==
    /\ phase # "unmounted"
    /\ ~showOnboarding
    /\ ~isStarting
    /\ HandleToggle(~isEnabled)

\* the context input of OverlayPanel
SetContextText ==
    /\ phase # "unmounted"
    /\ ~showOnboarding
    /\ \E v \in Contexts \ {contextText} : contextText' = v
    /\ UNCHANGED <<isEnabled, isStarting, status, lastUpload, error, emotions,
                   showOnboarding, messages, isUploadingRef, phase, callVars>>
    /\ Commit(loops, runLoopRef)

\* --------------------------------------------------- external capabilities
\* createImageBitmap(videoElement) rejections
SnapshotErrors == {"The source image could not be decoded."}
\* detectFaces rejections once the session exists (line 57, session.run)
DetectErrors == {"Could not get 2D context"}
\* fetch rejections, as rethrown by analyzeFaces (lines 95-116)
FetchFailures == {"AbortError", "TypeError", "other"}
FetchError(kind) ==
    CASE kind = "AbortError" -> "Request timeout: Server did not respond within 30 seconds."
      [] kind = "TypeError" -> "Unable to reach server"
      [] OTHER -> "Failed to upload: Unknown network error"
\* responses fetch can resolve with
Responses ==
    {[kind |-> k, top3 |-> Null, feedback |-> Null] :
        k \in {"nonjson", "badjson", "status", "status_empty"}}
    \cup {[kind |-> "ok", top3 |-> t, feedback |-> f] : t \in Top3Payloads, f \in Feedbacks}
\* every response error reported as a network error
ResponseErrorGeneric(resp) == "Failed to upload: Unknown network error"
\* message of the error analyzeFaces throws for a response (lines 119-142)
ResponseError(resp) ==
    CASE resp.kind = "nonjson" -> "Server returned non-JSON response"
      [] resp.kind = "badjson" -> "Failed to parse server response. The server may be experiencing issues."
      [] resp.kind = "status" -> "API Error: 500"
      [] OTHER -> ""        \* detail: [] joins to the empty string
\* lines 145-148
MapTop3(t) == IF t = Null THEN "[]" ELSE t

\* ----------------------------------------------------------- captureLoop
\* the while test without its two flags
LoopConditionAlways == TRUE

\* line 190
LoopCondition == runLoopRef /\ enabledRef

\* line 197, evaluated when captureAndProcess has returned
Continues == enabledRef /\ runLoopRef

\* captureAndProcess returned to the activation r: lines 197-200, then the
\* commit of the state updates the cycle made in this step
Return(r) ==
    IF Continues
    THEN Commit(Swap(r, Rec("interval", r.ctx, r.starting)), runLoopRef)
    ELSE Commit(Drop(r), FALSE)

\* ------------------------------------------------------- captureAndProcess
\* the guard test left out
GuardBusyNever == FALSE

\* line 82
GuardBusy == isUploadingRef

\* the message taken as thrown, without the fallback text
ErrorTextRaw(msg) == msg

\* line 168
ErrorText(msg) == IF msg = "" THEN MsgUnknown ELSE msg

\* no finally block: the guard keeps the value the try block left
AfterFinallyMissing == isUploadingRef

\* value of isUploadingRef.current after the finally block (line 173)
AfterFinally == FALSE

\* catch + finally (lines 166-174), then the return to captureLoop
Catch(r, msg) ==
    /\ error' = ErrorText(msg)
    /\ emotions' = Null
    /\ status' = Error
    /\ isStarting' = IF r.starting THEN FALSE ELSE isStarting
    /\ isUploadingRef' = AfterFinally
    /\ UNCHANGED <<contextText, isEnabled, lastUpload, showOnboarding, messages>>
    /\ Return(r)

\* captureLoop, lines 184-187: the yield, then the warm-up status
LoopYield(r) ==
    /\ r.pc = "yield0"
    /\ status' = Detecting
    /\ UNCHANGED <<contextText, isEnabled, isStarting, lastUpload, error, emotions,
                   showOnboarding, messages, isUploadingRef, phase>>
    /\ Commit(Swap(r, Rec("warmup", r.ctx, r.starting)), runLoopRef)

\* lines 100-104
NoVideo(r) ==
    /\ isUploadingRef' = FALSE
    /\ Return(r)

\* the early return with the guard cleared on the way out
SkippedReleasesGuard(r) ==
    /\ UNCHANGED error
    /\ isUploadingRef' = FALSE
    /\ Return(r)

\* lines 82-85: the call returns at once
Skipped(r) ==
    /\ UNCHANGED <<error, isUploadingRef>>
    /\ Return(r)

\* a timer of captureLoop fires (lines 188, 198): the while test, and when it
\* passes the call of captureAndProcess up to its first await (lines 82-107)
LoopWake(r) ==
    /\ r.pc \in {"warmup", "interval"}
    /\ UNCHANGED <<contextText, isEnabled, isStarting, status, lastUpload, emotions,
                   showOnboarding, messages, phase>>
    /\ IF ~LoopCondition
       THEN /\ UNCHANGED <<error, isUploadingRef>>
            /\ Commit(Drop(r), FALSE)
       ELSE IF GuardBusy
       THEN Skipped(r)
       ELSE /\ error' = Null
            /\ \E videoReady \in BOOLEAN :
                 IF videoReady
                 THEN /\ isUploadingRef' = TRUE
                      /\ Commit(Swap(r, Rec("snapshot", r.ctx, r.starting)), runLoopRef)
                 ELSE NoVideo(r)

\* createImageBitmap settles (line 107); on success lines 109-110 up to the
\* await of detectFaces, which rejects at once without a session (line 45)
SnapshotResolve(r) ==
    /\ r.pc = "snapshot"
    /\ \/ /\ phase = "ready"
          /\ status' = Detecting
          /\ UNCHANGED <<contextText, isEnabled, isStarting, lastUpload, error,
                         emotions, showOnboarding, messages, isUploadingRef>>
          /\ Commit(Swap(r, Rec("detect", r.ctx, r.starting)), runLoopRef)
       \/ /\ phase # "ready"
          /\ Catch(r, MsgNotInitialized)
       \/ \E msg \in SnapshotErrors : Catch(r, msg)
    /\ UNCHANGED phase

\* lines 117-120: how many detections are kept for encoding
Retained(n) == Min(n, FaceCap)

\* the no-face exit without the release of line 113
NoFacesKeepsGuard(r) ==
    /\ status' = Idle
    /\ isUploadingRef' = isUploadingRef
    /\ UNCHANGED <<contextText, isEnabled, isStarting, lastUpload, error, emotions,
                   showOnboarding, messages>>
    /\ Return(r)

\* lines 111-115
NoFaces(r) ==
    /\ status' = Idle
    /\ isUploadingRef' = FALSE
    /\ UNCHANGED <<contextText, isEnabled, isStarting, lastUpload, error, emotions,
                   showOnboarding, messages>>
    /\ Return(r)

\* detectFaces settles (line 110); lines 111-139 up to the await of Promise.all
DetectResolve(r) ==
    /\ r.pc = "detect"
    /\ \/ NoFaces(r)
       \/ \E n \in 1..MaxBoxes :
            /\ UNCHANGED <<stateVars, isUploadingRef>>
            /\ Commit(Swap(r, [Rec("encode", r.ctx, r.starting) EXCEPT
                                 !.faces = Retained(n), !.pending = 1..Retained(n)]),
                      runLoopRef)
       \/ \E msg \in DetectErrors : Catch(r, msg)
    /\ UNCHANGED phase

\* one cropResizeToBlob settles (lines 123-136): a failure yields null
EncodeResolve(r) ==
    /\ r.pc = "encode"
    /\ UNCHANGED <<stateVars, isUploadingRef, phase>>
    /\ \E i \in r.pending, ok \in BOOLEAN :
         Commit(Swap(r, [r EXCEPT !.pending = @ \ {i},
                                  !.encoded = IF ok THEN @ \cup {i} ELSE @]),
                runLoopRef)

\* a race instead of Promise.all: the first success is enough
AnySettled(r) == r.encoded # {} \/ r.pending = {}

\* Promise.all has every result (line 139)
AllSettled(r) == r.pending = {}

\* the empty-batch test of line 143 left out
NoneEncodedUploads(r) ==
    /\ status' = Uploading
    /\ UNCHANGED isUploadingRef
    /\ Commit(Swap(r, [r EXCEPT !.pc = "upload"]), runLoopRef)

\* lines 143-148
NoneEncoded(r) ==
    /\ status' = Idle
    /\ isUploadingRef' = FALSE
    /\ Return(r)

\* every retained face, whether its encode produced a blob or null
ProcessedFacesUnfiltered(r) == 1..r.faces

\* lines 139-141: the results of Promise.all without the nulls
ProcessedFaces(r) == r.encoded

\* lines 139-151 up to the await of fetch inside analyzeFaces
EncodeDone(r) ==
    /\ r.pc = "encode"
    /\ UNCHANGED <<contextText, isEnabled, isStarting, lastUpload, error, emotions,
                   showOnboarding, messages, phase>>
    /\ AllSettled(r)
    /\ IF ProcessedFaces(r) = {}
       THEN NoneEncoded(r)
       ELSE /\ status' = Uploading
            /\ UNCHANGED isUploadingRef
            /\ Commit(Swap(r, [r EXCEPT !.pc = "upload",
                                         !.batch = ProcessedFaces(r)]),
                      runLoopRef)

\* the success path without setLastUpload (line 155)
PublishNoTimestamp(r, resp, t1, t2) ==
    /\ emotions' = MapTop3(resp.top3)
    /\ lastUpload' = lastUpload
    /\ messages' = Append(messages,
                     [text |-> IF resp.feedback = Null THEN MsgNoFeedback
                               ELSE resp.feedback,
                      timestamp |-> t2])
    /\ status' = Idle
    /\ isStarting' = IF r.starting THEN FALSE ELSE isStarting
    /\ isUploadingRef' = FALSE
    /\ UNCHANGED <<contextText, isEnabled, error, showOnboarding>>
    /\ Return(r)

\* lines 153-165 and the finally block, then the return to captureLoop
Publish(r, resp, t1, t2) ==
    /\ emotions' = MapTop3(resp.top3)
    /\ lastUpload' = t1
    /\ messages' = Append(messages,
                     [text |-> IF resp.feedback = Null THEN MsgNoFeedback
                               ELSE resp.feedback,
                      timestamp |-> t2])
    /\ status' = Idle
    /\ isStarting' = IF r.starting THEN FALSE ELSE isStarting
    /\ isUploadingRef' = AfterFinally
    /\ UNCHANGED <<contextText, isEnabled, error, showOnboarding>>
    /\ Return(r)

\* analyzeFaces settles (line 151): fetch rejected (apiService lines 88-117),
\* or its response was read (lines 119-156); then lines 153-174
UploadResolve(r) ==
    /\ r.pc = "upload"
    /\ \/ \E kind \in FetchFailures : Catch(r, FetchError(kind))
       \/ \E resp \in Responses :
            IF resp.kind = "ok"
            THEN /\ Len(messages) < MaxMessages
                 /\ \E t1 \in Times, t2 \in Times : Publish(r, resp, t1, t2)
            ELSE Catch(r, ResponseError(resp))
    /\ UNCHANGED phase

\* one step of some live activation
Yield == (\E r \in Live : LoopYield(r)) /\ UNCHANGED callVars
Wake == (\E r \in Live : LoopWake(r)) /\ UNCHANGED callVars
Snapshot == (\E r \in Live : SnapshotResolve(r)) /\ UNCHANGED callVars
Detect == (\E r \in Live : DetectResolve(r)) /\ UNCHANGED callVars
Encode == (\E r \in Live : EncodeResolve(r)) /\ UNCHANGED callVars
Encoded == (\E r \in Live : EncodeDone(r)) /\ UNCHANGED callVars
Upload == (\E r \in Live : UploadResolve(r)) /\ UNCHANGED callVars

Next ==
    \/ Mount
    \/ InitResolve
    \/ HandleOnboardingComplete
    \/ HandleToggleChange
    \/ SetContextText
    \/ Yield
    \/ Wake
    \/ Snapshot
    \/ Detect
    \/ Encode
    \/ Encoded
    \/ Upload

Spec == Init /\ [][Next]_vars

TypeOK ==
    /\ contextText \in Contexts
    /\ isEnabled \in BOOLEAN /\ isStarting \in BOOLEAN /\ showOnboarding \in BOOLEAN
    /\ status \in AppStatus
    /\ isUploadingRef \in BOOLEAN /\ runLoopRef \in BOOLEAN /\ enabledRef \in BOOLEAN
    /\ Len(messages) <= MaxMessages
    /\ BagCardinality(loops) <= MaxLoops


\* every step of an activation: a timer fires or an awaited call settles
LoopStep ==
    \/ Yield
    \/ Wake
    \/ Snapshot
    \/ Detect
    \/ Encode
    \/ Encoded
    \/ Upload

\* Next with the context text left as it is
NextFixedContext ==
    \/ Mount
    \/ InitResolve
    \/ HandleOnboardingComplete
    \/ HandleToggleChange
    \/ LoopStep

\* the timers fire and the awaited external calls settle
FairSpec ==
    /\ Init
    /\ [][NextFixedContext]_vars
    /\ WF_vars(Yield) /\ WF_vars(Wake) /\ WF_vars(Snapshot) /\ WF_vars(Detect)
    /\ WF_vars(Encode) /\ WF_vars(Encoded) /\ WF_vars(Upload)

\* ------------------------------------- ranking of the detections (117-120)
\* boxes a detection can return: confidence in tenths, width and height in
\* pixels; the order by confidence differs from the order by score, and two
\* different boxes have the same score
RankBoxes ==
    {[confidence |-> 5, w |-> 2, h |-> 2],
     [confidence |-> 8, w |-> 1, h |-> 1],
     [confidence |-> 4, w |-> 1, h |-> 2]}

\* the rank taken from the confidence alone
ScoreConfidenceOnly(b) == b.confidence

\* line 118
Score(b) == b.confidence * (b.w * b.h)

\* b put into the descending list s behind every element that does not
\* compare below it (Array.prototype.sort is stable)
RECURSIVE InsertByScore(_, _)
InsertByScore(b, s) ==
    IF s = <<>> THEN <<b>>
    ELSE IF Score(Head(s)) >= Score(b)
    THEN <<Head(s)>> \o InsertByScore(b, Tail(s))
    ELSE <<b>> \o s

\* line 119: .sort((a, b) => b.score - a.score)
RECURSIVE SortByScore(_)
SortByScore(s) ==
    IF s = <<>> THEN <<>>
    ELSE InsertByScore(s[Len(s)], SortByScore(SubSeq(s, 1, Len(s) - 1)))

\* lines 117-120
SortedDetections(bboxes) ==
    SubSeq(SortByScore(bboxes), 1, Retained(Len(bboxes)))

RankInit ==
    /\ AppInit
    /\ crop = NoCall
    /\ nms = NoCall
    /\ det = NoCall
    /\ grid = NoCall
    /\ req = NoCall
    /\ \E n \in 1..MaxDetections : \E bboxes \in [1..n -> RankBoxes] :
         rank = [pc |-> "detected", bboxes |-> bboxes, sortedDetections |-> <<>>]

Rank ==
    /\ rank.pc = "detected"
    /\ rank' = [rank EXCEPT !.pc = "ranked",
                            !.sortedDetections = SortedDetections(rank.bboxes)]
    /\ UNCHANGED <<appVars, crop, nms, det, grid, req>>

RankNext == Rank

RankSpec == RankInit /\ [][RankNext]_vars

\* --------------------------------------- cropResizeToBlob (useDraggable.ts)
\* qualities are in hundredths, sizes in units of the byte budget's scale
WebpQualityStart == 90      \* let wQuality = 0.9
WebpQualityStep == 12       \* wQuality - 0.12
WebpMinQuality == 25        \* wQuality > 0.25, Math.max(0.25, ...)

Jpeg == "image/jpeg"
Webp == "image/webp"
MsgNoCanvasContext == "Could not get canvas context"
MsgToBlobFailed == "toBlob failed"
MsgSizeExceeded == "Unable to compress under maxBytes"

\* the options a caller passes; 90, 8, 25 and TRUE are the defaults
CropOpts ==
    [maxBytes : {2}, qualityStart : {90, 20}, qualityStep : {8, 40},
     minQuality : {25, 50}, webpFallback : BOOLEAN]
\* sizes of the blobs the encoder produces
BlobSizes == 1..MaxBlobSize

Max(a, b) == IF a > b THEN a ELSE b

\* c with one more call of canvasToBlob and how it settled
Called(c, type, q, outcome) ==
    [c EXCEPT !.calls = Append(@, [type |-> type, quality |-> q, outcome |-> outcome])]
Outcome(size, maxBytes) == IF size > maxBytes THEN "over" ELSE "within"

CropInit ==
    /\ AppInit
    /\ rank = NoCall
    /\ nms = NoCall
    /\ det = NoCall
    /\ grid = NoCall
    /\ req = NoCall
    /\ \E opts \in CropOpts :
         crop = [pc |-> "called", opts |-> opts, quality |-> 0, blob |-> 0,
                 format |-> "", wQuality |-> 0, webpBlob |-> 0, calls |-> <<>>,
                 sizeBytes |-> 0, error |-> Null]

\* lines 80-122 up to the first await of canvasToBlob
CropBegin ==
    /\ crop.pc = "called"
    /\ \/ crop' = [crop EXCEPT !.pc = "thrown", !.error = MsgNoCanvasContext]
       \/ crop' = [crop EXCEPT !.pc = "jpeg", !.quality = crop.opts.qualityStart]
    /\ UNCHANGED <<appVars, rank, nms, det, grid, req>>

\* the step without the lower limit
NextQualityUnclamped(quality, qualityStep, minQuality) == quality - qualityStep

\* line 125
NextQuality(quality, qualityStep, minQuality) ==
    Max(minQuality, quality - qualityStep)

\* the result returned whatever its size
FinishUnchecked(c) ==
    crop' = [c EXCEPT !.pc = "returned", !.sizeBytes = c.blob]

\* lines 149-153
Finish(c) ==
    IF c.blob > c.opts.maxBytes
    THEN crop' = [c EXCEPT !.pc = "thrown", !.error = MsgSizeExceeded]
    ELSE crop' = [c EXCEPT !.pc = "returned", !.sizeBytes = c.blob]

\* the fallback tried whenever it is permitted
TriesWebpAlways(c) == c.opts.webpFallback

\* line 132
TriesWebp(c) == c.blob > c.opts.maxBytes /\ c.opts.webpFallback

\* lines 129-135 up to the first await of the WebP encoder, or lines 149-153
AfterJpeg(c) ==
    IF TriesWebp(c)
    THEN crop' = [c EXCEPT !.format = Jpeg, !.pc = "webp",
                           !.wQuality = WebpQualityStart]
    ELSE Finish([c EXCEPT !.format = Jpeg])

\* a JPEG canvasToBlob settles (lines 122, 126), then the test of line 124
JpegResolve ==
    /\ crop.pc = "jpeg"
    /\ \/ crop' = [Called(crop, Jpeg, crop.quality, "rejected") EXCEPT
                      !.pc = "thrown", !.error = MsgToBlobFailed]
       \/ \E size \in BlobSizes :
            LET c == [Called(crop, Jpeg, crop.quality,
                             Outcome(size, crop.opts.maxBytes))
                        EXCEPT !.blob = size]
            IN  IF size > c.opts.maxBytes /\ c.quality > c.opts.minQuality
                THEN crop' = [c EXCEPT !.quality =
                                NextQuality(c.quality, c.opts.qualityStep,
                                            c.opts.minQuality)]
                ELSE AfterJpeg(c)
    /\ UNCHANGED <<appVars, rank, nms, det, grid, req>>

\* a WebP canvasToBlob settles (lines 135, 138), then lines 136-153; a
\* rejection is caught at line 144
WebpResolve ==
    /\ crop.pc = "webp"
    /\ \/ Finish(Called(crop, Webp, crop.wQuality, "rejected"))
       \/ \E size \in BlobSizes :
            LET c == [Called(crop, Webp, crop.wQuality,
                             Outcome(size, crop.opts.maxBytes))
                        EXCEPT !.webpBlob = size]
            IN  IF size > c.opts.maxBytes /\ c.wQuality > WebpMinQuality
                THEN crop' = [c EXCEPT !.wQuality =
                                Max(WebpMinQuality, c.wQuality - WebpQualityStep)]
                ELSE IF size <= c.opts.maxBytes
                THEN Finish([c EXCEPT !.blob = size, !.format = Webp])
                ELSE Finish(c)
    /\ UNCHANGED <<appVars, rank, nms, det, grid, req>>

CropNext ==
    \/ CropBegin
    \/ JpegResolve
    \/ WebpResolve

CropSpec == CropInit /\ [][CropNext]_vars

\* ------------------------------- nonMaxSuppression (detectionService.ts)
NmsThresholdPct == 45       \* NMS_THRESHOLD = 0.45, in hundredths

\* boxes on a small pixel grid, confidence in tenths
NmsBoxes ==
    [x : {0, 1}, y : {0}, w : {2, 3}, h : {2}, confidence : {5, 9}]

\* lines 207-212
Intersection(a, b) ==
    LET x1 == Max(a.x, b.x)
        y1 == Max(a.y, b.y)
        x2 == Min(a.x + a.w, b.x + b.w)
        y2 == Min(a.y + a.h, b.y + b.h)
    IN  Max(0, x2 - x1) * Max(0, y2 - y1)

\* line 215
Union(a, b) == a.w * a.h + b.w * b.h - Intersection(a, b)

\* iou(a, b) > iouThreshold (lines 197, 213-216), the quotient compared
\* without a division
IouAbove(a, b, thresholdPct) ==
    /\ Intersection(a, b) > 0
    /\ Union(a, b) > 0
    /\ 100 * Intersection(a, b) > thresholdPct * Union(a, b)

\* b put before the elements it compares equal to
RECURSIVE InsertByConfidenceTiesFirst(_, _)
InsertByConfidenceTiesFirst(b, s) ==
    IF s = <<>> THEN <<b>>
    ELSE IF Head(s).confidence > b.confidence
    THEN <<Head(s)>> \o InsertByConfidenceTiesFirst(b, Tail(s))
    ELSE <<b>> \o s

\* b put into the descending list s behind every element that does not
\* compare below it (the sort of line 190 is stable)
RECURSIVE InsertByConfidence(_, _)
InsertByConfidence(b, s) ==
    IF s = <<>> THEN <<b>>
    ELSE IF Head(s).confidence >= b.confidence
    THEN <<Head(s)>> \o InsertByConfidence(b, Tail(s))
    ELSE <<b>> \o s

\* the list taken in the order it came in
SortByConfidenceMissing(s) == s

\* line 190
RECURSIVE SortByConfidence(_)
SortByConfidence(s) ==
    IF s = <<>> THEN <<>>
    ELSE InsertByConfidence(s[Len(s)], SortByConfidence(SubSeq(s, 1, Len(s) - 1)))

\* the removal loop running forward: the element that moves into the place
\* of a removed one is skipped
RECURSIVE SurvivorsForward(_, _, _)
SurvivorsForward(current, sorted, thresholdPct) ==
    IF sorted = <<>> THEN <<>>
    ELSE IF IouAbove(current, Head(sorted), thresholdPct)
    THEN IF Len(sorted) >= 2
         THEN <<sorted[2]>> \o SurvivorsForward(current, Tail(Tail(sorted)), thresholdPct)
         ELSE <<>>
    ELSE <<Head(sorted)>> \o SurvivorsForward(current, Tail(sorted), thresholdPct)

\* lines 196-200: sorted after the backward removal loop
Survivors(current, sorted, thresholdPct) ==
    SelectSeq(sorted, LAMBDA b : ~IouAbove(current, b, thresholdPct))

\* lines 193-201
RECURSIVE Selected(_, _)
Selected(sorted, thresholdPct) ==
    IF sorted = <<>> THEN <<>>
    ELSE <<Head(sorted)>>
         \o Selected(Survivors(Head(sorted), Tail(sorted), thresholdPct), thresholdPct)

\* lines 187-204
NonMaxSuppression(boxes, thresholdPct) ==
    IF Len(boxes) <= 1 THEN boxes
    ELSE Selected(SortByConfidence(boxes), thresholdPct)

\* the box objects of a list: the i-th is the object i with the fields of bs[i]
Objects(bs) ==
    [i \in 1..Len(bs) |->
        [id |-> i, x |-> bs[i].x, y |-> bs[i].y, w |-> bs[i].w, h |-> bs[i].h,
         confidence |-> bs[i].confidence]]

NmsInit ==
    /\ AppInit
    /\ rank = NoCall
    /\ crop = NoCall
    /\ det = NoCall
    /\ grid = NoCall
    /\ req = NoCall
    /\ \E n \in 0..MaxNmsBoxes : \E boxes \in [1..n -> NmsBoxes] :
         nms = [pc |-> "called", boxes |-> Objects(boxes), selected |-> <<>>,
                again |-> <<>>]

Suppress ==
    /\ nms.pc = "called"
    /\ nms' = [nms EXCEPT !.pc = "returned",
                          !.selected = NonMaxSuppression(nms.boxes, NmsThresholdPct)]
    /\ UNCHANGED <<appVars, rank, crop, det, grid, req>>

\* nonMaxSuppression called on the list it returned
SuppressAgain ==
    /\ nms.pc = "returned"
    /\ nms' = [nms EXCEPT !.pc = "returned twice",
                          !.again = NonMaxSuppression(nms.selected, NmsThresholdPct)]
    /\ UNCHANGED <<appVars, rank, crop, det, grid, req>>

NmsNext ==
    \/ Suppress
    \/ SuppressAgain

NmsSpec == NmsInit /\ [][NmsNext]_vars

\* ----------------------------------- prepareGrids (detectionService.ts)
Strides == <<8, 16, 32>>    \* STRIDES

\* model input sizes and stride lists a grid is built for
GridSizes == {0, 8, 12, 16, 24}
StrideLists == {Strides, <<16, 8>>, <<6>>}

\* lines 109-111
PushCell(g, x, y, stride) ==
    [g EXCEPT !.gridX = Append(@, x), !.gridY = Append(@, y),
              !.stridePerProposal = Append(@, stride)]

\* lines 108-112: the inner loop from the column x on
RECURSIVE PushRow(_, _, _, _, _)
PushRow(g, stride, nx, y, x) ==
    IF x >= nx THEN g
    ELSE PushRow(PushCell(g, x, y, stride), stride, nx, y, x + 1)

\* lines 107-113: the outer loop from the row y on
RECURSIVE PushCells(_, _, _, _, _)
PushCells(g, stride, nx, ny, y) ==
    IF y >= ny THEN g
    ELSE PushCells(PushRow(g, stride, nx, y, 0), stride, nx, ny, y + 1)

\* lines 104-114
RECURSIVE ForEachStride(_, _, _, _)
ForEachStride(g, strides, modelWidth, modelHeight) ==
    IF strides = <<>> THEN g
    ELSE ForEachStride(
             PushCells(g, Head(strides), modelWidth \div Head(strides),
                       modelHeight \div Head(strides), 0),
             Tail(strides), modelWidth, modelHeight)

\* the three arrays filled without being emptied first
PrepareGridsAppending(g, modelWidth, modelHeight, strides) ==
    LET filled == ForEachStride(g, strides, modelWidth, modelHeight)
    IN  [filled EXCEPT !.numProposals = Len(filled.gridX)]

\* lines 98-116
PrepareGrids(g, modelWidth, modelHeight, strides) ==
    LET filled == ForEachStride(
                      [g EXCEPT !.gridX = <<>>, !.gridY = <<>>,
                                !.stridePerProposal = <<>>],
                      strides, modelWidth, modelHeight)
    IN  [filled EXCEPT !.numProposals = Len(filled.gridX)]

\* lines 16-19: the grid fields of a new DetectionService
GridInit ==
    /\ AppInit
    /\ rank = NoCall
    /\ crop = NoCall
    /\ nms = NoCall
    /\ det = NoCall
    /\ req = NoCall
    /\ \E w \in GridSizes, h \in GridSizes, strides \in StrideLists :
         grid = [modelWidth |-> w, modelHeight |-> h, strides |-> strides,
                 numProposals |-> 0, gridX |-> <<>>, gridY |-> <<>>,
                 stridePerProposal |-> <<>>, builds |-> 0]

BuildGrid ==
    /\ grid.builds < MaxBuilds
    /\ grid' = [PrepareGrids(grid, grid.modelWidth, grid.modelHeight, grid.strides)
                  EXCEPT !.builds = @ + 1]
    /\ UNCHANGED <<appVars, rank, crop, nms, det, req>>

GridNext == BuildGrid

GridSpec == GridInit /\ [][GridNext]_vars

\* ------------------- initialize, detectFaces, processOutput (detectionService.ts)
\* Numbers: tensor values are whole logits, sigmoids and confidences are in
\* thousandths, box coordinates in tenths of an image pixel.
ConfidenceThresholdPm == 350    \* CONFIDENCE_THRESHOLD = 0.35
NaN == -999999                  \* the number a read past the end of the data gives

\* the grid fields of the instance for the scaled-down model input
DetGrid(d) == PrepareGrids(d, DetModelWidth, DetModelHeight, Strides)

\* the channel values of one proposal: x, y, w, h, objectness, class
Vectors ==
    {<<0, 0, 0, 0, 2, 0>>, <<2, 0, 2, 0, 0, -2>>, <<0, 2, 0, 0, -2, 2>>}

\* the channel-major data of a tensor of dims [1, c, p]
TensorData(c, p, vecs) ==
    [k \in 1..(c * p) |-> vecs[((k - 1) % p) + 1][((k - 1) \div p) + 1]]

NoTensor == [channels |-> 0, proposals |-> 0, data |-> <<>>]

\* output tensors session.run can give for a grid of n proposals: the
\* proposal axis fits the grid or is one longer, with 4, 5 or 6 channels
Tensors(n) ==
    UNION {{[channels |-> c, proposals |-> p, data |-> TensorData(c, p, vecs)] :
                vecs \in [1..p -> Vectors]} : c \in {4, 5, 6}, p \in {n, n + 1}}

\* imageWidth, imageHeight of the frame
ImageSizes == {<<16, 8>>, <<8, 16>>}

\* output[k], undefined past the end
Output(data, k) == IF k < Len(data) THEN data[k + 1] ELSE NaN

\* lines 118-120, by table
Sigmoid(v) ==
    CASE v = NaN -> NaN
      [] v = -2 -> 119
      [] v = 0 -> 500
      [] v = 2 -> 881

\* lines 122-124
Clamp(value, min, max) == Max(min, Min(max, value))

\* lines 156-166: the best class score, or 1
RECURSIVE MaxClassScore(_, _, _, _, _, _)
MaxClassScore(data, n, i, c, numChannels, maxClassScore) ==
    IF c >= numChannels THEN maxClassScore
    ELSE LET score == Sigmoid(Output(data, c * n + i))
         IN  MaxClassScore(data, n, i, c + 1, numChannels,
                           IF score # NaN /\ score > maxClassScore
                           THEN score ELSE maxClassScore)

ClassScore(data, n, i, numChannels) ==
    IF numChannels > 5 THEN MaxClassScore(data, n, i, 5, numChannels, 0) ELSE 1000

\* line 168
Confidence(data, n, i, numChannels) ==
    LET objectness == Sigmoid(Output(data, 4 * n + i))
    IN  IF objectness = NaN THEN NaN
        ELSE (objectness * ClassScore(data, n, i, numChannels)) \div 1000

\* every proposal is kept
BelowThresholdNever(confidence) == FALSE

\* line 169: confidence < CONFIDENCE_THRESHOLD, false for NaN
BelowThreshold(confidence) ==
    confidence # NaN /\ confidence < ConfidenceThresholdPm

\* lines 171-181: the box of proposal i
BoxOf(d, data, i, confidence, imageWidth, imageHeight) ==
    LET n == d.numProposals
        stride == d.stridePerProposal[i + 1]
        xCenter == (2 * Sigmoid(Output(data, i)) - 500 + 1000 * d.gridX[i + 1]) * stride
        yCenter == (2 * Sigmoid(Output(data, n + i)) - 500 + 1000 * d.gridY[i + 1]) * stride
        sw == 2 * Sigmoid(Output(data, 2 * n + i))
        sh == 2 * Sigmoid(Output(data, 3 * n + i))
        width == (sw * sw * stride) \div 1000
        height == (sh * sh * stride) \div 1000
    IN  [proposal |-> i,
         x |-> Clamp(((xCenter - width \div 2) * imageWidth) \div (DetModelWidth * 100),
                     0, imageWidth * 10),
         y |-> Clamp(((yCenter - height \div 2) * imageHeight) \div (DetModelHeight * 100),
                     0, imageHeight * 10),
         w |-> Clamp((width * imageWidth) \div (DetModelWidth * 100),
                     10, imageWidth * 10),
         h |-> Clamp((height * imageHeight) \div (DetModelHeight * 100),
                     10, imageHeight * 10),
         confidence |-> confidence]

\* lines 142-182: the boxes pushed for the proposals i, i + 1, ...
RECURSIVE Boxes(_, _, _, _, _, _)
Boxes(d, data, i, numChannels, imageWidth, imageHeight) ==
    IF i >= d.numProposals THEN <<>>
    ELSE LET confidence == Confidence(data, d.numProposals, i, numChannels)
             rest == Boxes(d, data, i + 1, numChannels, imageWidth, imageHeight)
         IN  IF BelowThreshold(confidence) THEN rest
             ELSE <<BoxOf(d, data, i, confidence, imageWidth, imageHeight)>> \o rest

\* the orders of a list
Orders(s) == {[i \in 1..Len(s) |-> s[f[i]]] : f \in Permutations(1..Len(s))}

\* line 190 where a confidence may be NaN: the comparator then answers NaN,
\* which counts as equal; two elements keep their order, more have the order
\* the engine gives an inconsistent comparator
SortOrders(boxes) ==
    IF \A i \in 1..Len(boxes) : boxes[i].confidence # NaN
    THEN {SortByConfidence(boxes)}
    ELSE IF Len(boxes) <= 2 THEN {boxes}
    ELSE Orders(boxes)

\* lines 126-185: the lists processOutput can return
ProcessOutput(d, data, imageWidth, imageHeight) ==
    IF d.numProposals = 0 THEN {<<>>}
    ELSE LET numChannels ==
                 IF d.channels # 0 THEN d.channels
                 ELSE Len(data) \div d.numProposals
         IN  IF numChannels < 5 THEN {<<>>}
             ELSE LET boxes == Boxes(d, data, 0, numChannels, imageWidth, imageHeight)
                  IN  IF Len(boxes) <= 1 THEN {boxes}
                      ELSE {Selected(sorted, NmsThresholdPct) :
                                sorted \in SortOrders(boxes)}

\* lines 77-83: the channel count is taken from the first output and kept
Channels(d, tensor) == IF d.channels = 0 THEN tensor.channels ELSE d.channels

MsgNoContext == "Could not get 2D context"

\* session set with no grid built
CreatedWithoutGrids(d) == [d EXCEPT !.session = TRUE]

\* lines 31-36: the session is created and the grid built in one step
Created(d) == [DetGrid(d) EXCEPT !.session = TRUE]

DetInit ==
    /\ AppInit
    /\ rank = NoCall /\ crop = NoCall /\ nms = NoCall /\ grid = NoCall
    /\ req = NoCall
    /\ det = [session |-> FALSE, failed |-> FALSE, numProposals |-> 0,
              gridX |-> <<>>, gridY |-> <<>>, stridePerProposal |-> <<>>,
              channels |-> 0, calls |-> 0, tensor |-> NoTensor,
              imageWidth |-> 0, imageHeight |-> 0, ran |-> FALSE,
              outcome |-> "none", error |-> "", result |-> <<>>]

\* initialize() (lines 22-42): nothing when the session exists; the model
\* loads, or the fetch or the creation fails and the error is rethrown
Initialize ==
    /\ ~det.session
    /\ \E ok \in BOOLEAN :
          det' = IF ok THEN [Created(det) EXCEPT !.failed = FALSE]
                 ELSE [det EXCEPT !.failed = TRUE]
    /\ UNCHANGED <<appVars, rank, crop, nms, grid, req>>

\* detectFaces() before the session exists (lines 45-47)
DetectNotReady ==
    /\ ~det.session
    /\ det.calls < MaxDetectCalls
    /\ \E size \in ImageSizes :
          det' = [det EXCEPT !.calls = @ + 1, !.tensor = NoTensor,
                             !.imageWidth = size[1], !.imageHeight = size[2],
                             !.ran = FALSE, !.outcome = "thrown",
                             !.error = MsgNotInitialized, !.result = <<>>]
    /\ UNCHANGED <<appVars, rank, crop, nms, grid, req>>

\* detectFaces() with no 2D context for its canvas (lines 56-58)
DetectNoContext ==
    /\ det.session
    /\ det.calls < MaxDetectCalls
    /\ \E size \in ImageSizes :
          det' = [det EXCEPT !.calls = @ + 1, !.tensor = NoTensor,
                             !.imageWidth = size[1], !.imageHeight = size[2],
                             !.ran = FALSE, !.outcome = "thrown",
                             !.error = MsgNoContext, !.result = <<>>]
    /\ UNCHANGED <<appVars, rank, crop, nms, grid, req>>

\* detectFaces() through session.run and processOutput (lines 48-85)
DetectFaces ==
    /\ det.session
    /\ det.calls < MaxDetectCalls
    /\ \E size \in ImageSizes, tensor \in Tensors(det.numProposals) :
          LET d == [det EXCEPT !.channels = Channels(det, tensor)]
          IN  \E result \in ProcessOutput(d, tensor.data, size[1], size[2]) :
                 det' = [d EXCEPT !.calls = @ + 1, !.tensor = tensor,
                                  !.imageWidth = size[1], !.imageHeight = size[2],
                                  !.ran = TRUE, !.outcome = "returned",
                                  !.error = "", !.result = result]
    /\ UNCHANGED <<appVars, rank, crop, nms, grid, req>>

DetNext == Initialize \/ DetectNotReady \/ DetectNoContext \/ DetectFaces

DetSpec == DetInit /\ [][DetNext]_vars

\* --------------------------- analyzeFaces up to its fetch (apiService.ts)
MsgNoFaces == "No faces to analyze (faces array is empty)."

\* the faces argument: the blob types of its elements, in order
Batches == UNION {[1..n -> {Jpeg, Webp}] : n \in 0..MaxBatch}

\* faces[i].blob
FaceBlob(faces, i) == [face |-> i, type |-> faces[i + 1], resized |-> FALSE]

\* the blob resizeImageFileToJpegBlob resolves with for faces[i].blob
ResizedBlob(faces, i) == [face |-> i, type |-> Jpeg, resized |-> TRUE]

\* resizeImageFileToJpegBlob (lines 5-13) gives a blob, gives null (toBlob),
\* or rejects (createImageBitmap, drawImage on a missing context)
ResizeOutcomes == {"blob", "null", "rejected"}

\* `face_${i}.jpg`
FileName(i) == <<"face_", i, ".jpg">>

\* a face whose resize failed is left out of the form
AppendFileUnlessFailed(files, faces, i, outcome) ==
    IF outcome = "blob"
    THEN Append(files, [name |-> FileName(i), blob |-> ResizedBlob(faces, i)])
    ELSE files

\* lines 54-61: the 'files' entry appended for faces[i]
AppendFile(files, faces, i, outcome) ==
    Append(files, [name |-> FileName(i),
                   blob |-> IF outcome = "blob" THEN ResizedBlob(faces, i)
                            ELSE FaceBlob(faces, i)])

AnalyzeInit ==
    /\ AppInit
    /\ rank = NoCall /\ crop = NoCall /\ nms = NoCall /\ det = NoCall
    /\ grid = NoCall
    /\ \E faces \in Batches, context \in Contexts :
         req = [pc |-> "called", faces |-> faces, context |-> context,
                form |-> [context |-> Null, face_count |-> 0], i |-> 0,
                files |-> <<>>, outcomes |-> <<>>, fetches |-> 0, error |-> Null]

\* lines 30-35: the empty batch is refused, else the animation frame is awaited
AnalyzeBegin ==
    /\ req.pc = "called"
    /\ req' = IF Len(req.faces) = 0
              THEN [req EXCEPT !.pc = "thrown", !.error = MsgNoFaces]
              ELSE [req EXCEPT !.pc = "frame"]
    /\ UNCHANGED <<appVars, rank, crop, nms, det, grid>>

\* lines 37-55: the metadata and context fields, then the first resize
FrameResolve ==
    /\ req.pc = "frame"
    /\ req' = [req EXCEPT !.pc = "resize",
                          !.form = [context |-> req.context,
                                    face_count |-> Len(req.faces)]]
    /\ UNCHANGED <<appVars, rank, crop, nms, det, grid>>

\* lines 53, 63-81: the next face, or the one fetch once every face is in
AfterIteration(r) ==
    IF r.i + 1 < Len(r.faces)
    THEN [r EXCEPT !.pc = "resize", !.i = @ + 1]
    ELSE [r EXCEPT !.pc = "fetch", !.i = @ + 1, !.fetches = @ + 1]

\* the resize of faces[i] settles (lines 55-62)
ResizeResolve ==
    /\ req.pc = "resize"
    /\ \E outcome \in ResizeOutcomes :
         LET r == [req EXCEPT !.files = AppendFile(@, req.faces, req.i, outcome),
                              !.outcomes = Append(@, outcome)]
         IN  req' = IF req.i % 2 = 0 THEN [r EXCEPT !.pc = "timer"]
                    ELSE AfterIteration(r)
    /\ UNCHANGED <<appVars, rank, crop, nms, det, grid>>

\* the setTimeout of line 62 fires
TimerResolve ==
    /\ req.pc = "timer"
    /\ req' = AfterIteration(req)
    /\ UNCHANGED <<appVars, rank, crop, nms, det, grid>>

AnalyzeNext == AnalyzeBegin \/ FrameResolve \/ ResizeResolve \/ TimerResolve

AnalyzeSpec == AnalyzeInit /\ [][AnalyzeNext]_vars

\* ------------------------------------------------------------ properties
\* the activation r took a step
Moved(r) == CopiesIn(r, loops') < CopiesIn(r, loops)
TimerPcs == {"yield0", "warmup", "interval"}
ThrownTexts ==
    {FetchError(k) : k \in FetchFailures}
    \cup {ErrorText(ResponseError(resp)) : resp \in {x \in Responses : x.kind # "ok"}}

\* C1: capture cycles never overlap: at most one invocation of
\* captureAndProcess is between setting the guard and releasing it, so at
\* most one upload is in flight.
C1_NoOverlap == NumInCycle <= 1

\* a cycle is in flight while another activation waits on a timer
C1_Witness ==
    /\ NumInCycle = 1
    /\ isUploadingRef
    /\ At({"warmup", "interval"}) # {}

\* C2: the guard is false before and after every cycle: it is set only
\* while some invocation of captureAndProcess is between its start and one
\* of its exits.
C2_GuardOnlyInCycle == isUploadingRef => NumInCycle >= 1

\* a cycle has ended in the catch block and the guard is free
C2_Witness ==
    /\ status = Error
    /\ error \in ThrownTexts
    /\ NumInCycle = 0
    /\ ~isUploadingRef
    /\ isEnabled

\* enabled capture has a cycle in flight or a pending timer that will tick
C3_Schedulable ==
    enabledRef => (NumInCycle >= 1 \/ (At(TimerPcs) # {} /\ LoopCondition))

C4_SingleLoop == BagCardinality(loops) <= 1

\* a step taken while capture is and stays disabled
C5_NoStartWhileDisabled ==
    (~isEnabled /\ ~isEnabled') =>
        /\ NumInCycle' <= NumInCycle
        /\ isUploadingRef' => isUploadingRef
        /\ \A r \in BagToSet(loops') :
             r.pc = "interval" => CopiesIn(r, loops') <= CopiesIn(r, loops)

\* C5: once capture is disabled and not re-enabled no cycle sets the guard
\* and no activation goes back to its interval wait, and a cycle in flight
\* still releases the guard.
C5_DisableStops ==
    /\ [][C5_NoStartWhileDisabled]_vars
    /\ (~isEnabled /\ isUploadingRef) ~> ~isUploadingRef

\* capture was disabled while a cycle was in flight
C5_Witness ==
    /\ ~isEnabled
    /\ isUploadingRef
    /\ NumInCycle = 1

\* C6: an upload is in flight only when every per-face encode of its cycle
\* has settled.
C6_UploadAfterEncodes ==
    \A r \in At({"upload"}) : r.pending = {} /\ r.encoded \subseteq 1..r.faces

\* an upload of a two-face cycle in which one encode failed
C6_Witness ==
    \E r \in At({"upload"}) : r.faces = 2 /\ Cardinality(r.encoded) = 1

\* the cycle ends silently in Idle with the guard released
C7_EndsIdle ==
    /\ status' = Idle
    /\ ~isUploadingRef'
    /\ NumInCycle' = 0
    /\ UNCHANGED <<error, emotions, messages, lastUpload>>

\* the step of a cycle whose encodes all failed, or that got no boxes
C7_EmptyBatchStep ==
    /\ \A r \in At({"encode"}) :
         (Moved(r) /\ r.pending = {} /\ r.encoded = {}) => C7_EndsIdle
    /\ \A r \in At({"detect"}) :
         (Moved(r) /\ NumInCycle' = 0 /\ status' # Error) => C7_EndsIdle

\* C7: an upload is never started with an empty batch: a cycle with no
\* boxes or with no encoded face sets Idle, releases the guard and ends.
C7_NoEmptyUpload ==
    /\ [](\A r \in At({"upload"}) : r.encoded # {})
    /\ [][C7_EmptyBatchStep]_vars

\* every encode of a cycle has failed
C7_Witness ==
    \E r \in At({"encode"}) : r.faces = 2 /\ r.pending = {} /\ r.encoded = {}

\* a tick that passes the while test and the guard and finds no video
C8_NoVideoTick ==
    \E r \in At({"warmup", "interval"}) :
        /\ LoopCondition
        /\ ~GuardBusy
        /\ LoopWake(r)
        /\ NumInCycle' = NumInCycle

\* C8: a tick that finds no usable video changes neither status, error,
\* emotions, messages nor the last-upload time.
C8_SilentSkip ==
    [][C8_NoVideoTick => UNCHANGED <<status, error, emotions, messages, lastUpload>>]_vars

\* analyzeFaces settled without a message being appended
C9_FailedUploadStep ==
    \A r \in At({"upload"}) :
        (Moved(r) /\ Len(messages') = Len(messages)) =>
            /\ error' \notin {Null, ""}
            /\ status' = Error
            /\ ~isUploadingRef'
            /\ NumInCycle' = 0

\* ticks and cycle starts after an Error
C9_NextTickStep ==
    /\ (status = Error /\ isEnabled /\ isEnabled' /\ Wake) =>
           BagCardinality(loops') = BagCardinality(loops)
    /\ (NumInCycle' > NumInCycle) => error' = Null
    /\ \A r \in At({"snapshot"}) :
           (Moved(r) /\ NumInCycle' = 1) => status' = Detecting

\* the step that appends a feedback message
C9_SuccessStep ==
    Len(messages') > Len(messages) =>
        status' = Idle /\ error' = Null /\ ~isUploadingRef'

\* C9: a failed upload records a non-empty error, sets Error and releases
\* the guard; Error does not stop the loop: a tick taken while enabled keeps
\* the activation and a cycle it starts clears the error and enters
\* Detecting; a successful upload ends with Idle and no error.
C9_ErrorRecovery ==
    [][C9_FailedUploadStep /\ C9_NextTickStep /\ C9_SuccessStep]_vars

\* an upload has failed with the empty message and capture is still enabled
C9_Witness ==
    /\ status = Error
    /\ error = MsgUnknown
    /\ isEnabled
    /\ ~isUploadingRef
    /\ At({"interval"}) # {}

\* what the step that appends a feedback message establishes
C10_PublishStep ==
    Len(messages') > Len(messages) =>
        \E resp \in {x \in Responses : x.kind = "ok"} :
            /\ emotions' = MapTop3(resp.top3)
            /\ Len(messages') = Len(messages) + 1
            /\ SubSeq(messages', 1, Len(messages)) = messages
            /\ messages'[Len(messages')].text =
                 (IF resp.feedback = Null THEN MsgNoFeedback ELSE resp.feedback)
            /\ lastUpload' \in Times
            /\ status' = Idle
            /\ ~isUploadingRef'
            /\ NumInCycle' = 0

\* C10: a successful upload publishes the returned scores, appends the
\* returned feedback, records a timestamp and leaves Idle with the guard
\* released, all before any later cycle starts.
C10_Success == [][C10_PublishStep]_vars

\* an upload has succeeded
C10_Witness ==
    /\ Len(messages) = 1
    /\ lastUpload \in Times
    /\ emotions = "E1"
    /\ status = Idle
    /\ ~isUploadingRef

\* the transitions of the capture status the state diagram allows
StatusEdges ==
    {<<Initializing, Idle>>, <<Idle, Detecting>>, <<Detecting, Idle>>,
     <<Detecting, Uploading>>, <<Uploading, Idle>>,
     <<Error, Idle>>, <<Error, Detecting>>}
    \cup {<<s, Error>> : s \in AppStatus}

\* C11: the status changes only along the edges of the state diagram; in
\* particular Uploading is entered only from Detecting and Initializing is
\* never re-entered.
C11_StatusEdges ==
    [][status' # status => <<status, status'>> \in StatusEdges]_vars

\* a tick that finds the guard set, and the steps that start or end a cycle
C12_SkippedTickStep ==
    /\ \A r \in At({"warmup", "interval"}) :
         (Moved(r) /\ LoopCondition /\ isUploadingRef) =>
             /\ UNCHANGED <<status, error, emotions, messages, lastUpload,
                            isUploadingRef>>
             /\ NumInCycle' = NumInCycle
             /\ CopiesIn(Rec("interval", r.ctx, r.starting), loops')
                  > CopiesIn(Rec("interval", r.ctx, r.starting), loops)
    /\ (isUploadingRef /\ ~isUploadingRef') => NumInCycle' < NumInCycle
    /\ (NumInCycle' > NumInCycle) => (~isUploadingRef /\ isUploadingRef')

\* C12: a tick that arrives while the guard is set is skipped and not queued:
\* it leaves the guard set and status, error, emotions, messages and the
\* last-upload time unchanged, the activation goes back to its interval wait,
\* only a cycle's own exit releases the guard and a cycle starts only at a
\* tick that finds the guard free.
C12_SkipNotQueued == [][C12_SkippedTickStep]_vars

\* an upload is in flight while another activation waits for its next tick
C12_Witness ==
    /\ status = Uploading
    /\ isUploadingRef
    /\ At({"upload"}) # {}
    /\ At({"interval"}) # {}

\* the steps of a cycle that is encoding its faces
C13_EncodeStep ==
    \A r \in At({"encode"}) :
        /\ (Moved(r) /\ r.pending # {}) =>
               /\ UNCHANGED <<status, error, emotions, isUploadingRef>>
               /\ NumInCycle' = NumInCycle
        /\ (Moved(r) /\ r.pending = {} /\ r.encoded # {}) =>
               /\ status' = Uploading
               /\ UNCHANGED <<error, isUploadingRef>>
               /\ \E r2 \in BagToSet(loops') :
                    /\ r2.pc = "upload"
                    /\ r2.faces = r.faces
                    /\ r2.batch = r.encoded

\* C13: a failed encode drops only its face: it changes neither status nor
\* error and does not end the cycle, and when at least one encode succeeded
\* the cycle enters Uploading with exactly the retained faces whose encode
\* succeeded.
C13_FailureDropsFace ==
    /\ [][C13_EncodeStep]_vars
    /\ [](\A r \in At({"upload"}) : r.batch = r.encoded /\ r.batch \subseteq 1..r.faces)

\* an upload whose batch lacks the first of two retained faces
C13_Witness ==
    /\ status = Uploading
    /\ error = Null
    /\ \E r \in At({"upload"}) : r.faces = 2 /\ r.batch = {2}

\* C15: the context sent with an upload is the context that was current
\* when its cycle started: a cycle starts with the context text of that
\* moment in its closure.
C15_ContextAtCycleStart ==
    [][\A r \in At({"warmup", "interval"}) :
          (Moved(r) /\ NumInCycle' > NumInCycle) => r.ctx = contextText]_vars

\* the rank score of a box: confidence times width times height
C14_RankScore(b) == b.confidence * b.w * b.h

\* how often the box b occurs in the list s
C14_Count(b, s) == Cardinality({i \in 1..Len(s) : s[i] = b})

\* C14: the faces kept for encoding are the top min(n, 8) of the n boxes in
\* descending order of confidence x width x height: at most 8 are kept, each
\* kept box is one of the decoded ones, and no dropped box has a strictly
\* higher rank score than a kept one.
C14_TopByScore ==
    rank.pc = "ranked" =>
        LET in == rank.bboxes
            out == rank.sortedDetections
        IN  /\ Len(out) = Min(Len(in), 8)
            /\ Len(out) <= 8
            /\ \A i \in 1..Len(out) : \A j \in i..Len(out) :
                 C14_RankScore(out[i]) >= C14_RankScore(out[j])
            /\ \A b \in RankBoxes : C14_Count(b, out) <= C14_Count(b, in)
            /\ \A b \in RankBoxes :
                 C14_Count(b, out) < C14_Count(b, in) =>
                     \A k \in 1..Len(out) :
                         C14_RankScore(b) <= C14_RankScore(out[k])

\* nine boxes were ranked and the one left out has the highest confidence
\* and the lowest rank score
C14_Witness ==
    /\ rank.pc = "ranked"
    /\ Len(rank.bboxes) = 9
    /\ Len(rank.sortedDetections) = 8
    /\ C14_Count([confidence |-> 8, w |-> 1, h |-> 1], rank.bboxes) = 1
    /\ C14_Count([confidence |-> 8, w |-> 1, h |-> 1], rank.sortedDetections) = 0
    /\ C14_Count([confidence |-> 5, w |-> 2, h |-> 2], rank.sortedDetections) = 8

\* the calls of canvasToBlob made so far for one format, in order
CallsOf(type) == SelectSeq(crop.calls, LAMBDA c : c.type = type)
CropEnded == crop.pc \in {"returned", "thrown"}
SomeWithin(calls) == \E i \in 1..Len(calls) : calls[i].outcome = "within"
SomeRejected(calls) == \E i \in 1..Len(calls) : calls[i].outcome = "rejected"

\* C16: cropResizeToBlob never silently exceeds the byte budget: a returned
\* blob is within maxBytes, sizeBytes is its size and some attempt met the
\* budget; when the encoder delivered every blob asked of it and the call
\* fails, it fails with the size-exceeded error; and when no attempt in
\* either format met the budget the call fails.
C16_WithinBudget ==
    /\ crop.pc = "returned" =>
           /\ crop.blob <= crop.opts.maxBytes
           /\ crop.sizeBytes = crop.blob
           /\ SomeWithin(crop.calls)
    /\ (crop.pc = "thrown" /\ crop.calls # <<>> /\ ~SomeRejected(CallsOf(Jpeg))) =>
           crop.error = MsgSizeExceeded
    /\ (CropEnded /\ ~SomeWithin(crop.calls)) => crop.pc = "thrown"

\* both searches ran to their lowest quality and every blob was over budget
C16_Witness ==
    /\ crop.pc = "thrown"
    /\ crop.error = MsgSizeExceeded
    /\ Len(CallsOf(Jpeg)) = 10
    /\ Len(CallsOf(Webp)) = 7
    /\ ~SomeWithin(crop.calls)
    /\ ~SomeRejected(crop.calls)

\* the JPEG search of the call has stopped
JpegSearchEnded ==
    /\ crop.pc \in {"webp", "returned", "thrown"}
    /\ CallsOf(Jpeg) # <<>>
    /\ ~SomeRejected(CallsOf(Jpeg))

\* the attempts of the JPEG search follow the stepped schedule: the first at
\* qualityStart, each later one after an over-budget attempt and at
\* max(minQuality, previous quality - qualityStep)
C17_Schedule ==
    LET J == CallsOf(Jpeg)
        o == crop.opts
    IN  /\ J # <<>> => J[1].quality = o.qualityStart
        /\ \A i \in 2..Len(J) :
             /\ J[i].quality = Max(o.minQuality, J[i-1].quality - o.qualityStep)
             /\ J[i].quality < J[i-1].quality
             /\ J[i-1].outcome = "over"

C18_WebpSameSearch ==
    LET W == CallsOf(Webp)
        o == crop.opts
    IN  /\ W # <<>> => W[1].quality = o.qualityStart
        /\ \A i \in 2..Len(W) :
             W[i].quality = Max(o.minQuality, W[i-1].quality - o.qualityStep)
        /\ \A i \in 1..(Len(W) - 1) : W[i].quality > o.minQuality
        /\ (CropEnded /\ W # <<>> /\ ~SomeRejected(W)) =>
             (W[Len(W)].outcome = "within" \/ W[Len(W)].quality <= o.minQuality)

\* C19: the result is a JPEG whenever some JPEG attempt met the budget, and
\* WebP is then not tried; the result is a WebP exactly when every JPEG
\* attempt was over budget, the fallback is permitted and its search met the
\* budget; a rejected WebP encode ends in the size-exceeded error.
C19_FormatSelection ==
    LET J == CallsOf(Jpeg)
        W == CallsOf(Webp)
    IN  /\ SomeWithin(J) => W = <<>>
        /\ (crop.pc = "returned" /\ SomeWithin(J)) => crop.format = Jpeg
        /\ crop.pc = "returned" =>
             /\ crop.format \in {Jpeg, Webp}
             /\ crop.format = Webp <=>
                  /\ \A i \in 1..Len(J) : J[i].outcome = "over"
                  /\ crop.opts.webpFallback
                  /\ SomeWithin(W)
        /\ (CropEnded /\ SomeRejected(W)) =>
             (crop.pc = "thrown" /\ crop.error = MsgSizeExceeded)

\* a WebP result after a JPEG search that stayed over budget down to its
\* lowest quality
C19_Witness ==
    /\ crop.pc = "returned"
    /\ crop.format = Webp
    /\ crop.blob <= crop.opts.maxBytes
    /\ Len(CallsOf(Jpeg)) = 10
    /\ Len(CallsOf(Webp)) >= 2

\* C20: any two boxes at different places of the list nonMaxSuppression
\* returns have an intersection-over-union of at most the NMS threshold.
C20_PairwiseIou ==
    nms.pc = "returned" =>
        \A i \in 1..Len(nms.selected) : \A j \in 1..Len(nms.selected) :
            i # j => ~IouAbove(nms.selected[i], nms.selected[j], NmsThresholdPct)

\* of three boxes the first suppressed the two others, which overlap it and
\* each other
C20_Witness ==
    /\ nms.pc = "returned"
    /\ Len(nms.boxes) = 3
    /\ Len(nms.selected) = 1
    /\ \A i \in 1..3 : \A j \in 1..3 :
         i # j => /\ <<nms.boxes[i].x, nms.boxes[i].w, nms.boxes[i].confidence>>
                       # <<nms.boxes[j].x, nms.boxes[j].w, nms.boxes[j].confidence>>
                  /\ IouAbove(nms.boxes[i], nms.boxes[j], NmsThresholdPct)

\* C21: nonMaxSuppression is idempotent: called on its own output with the
\* same threshold it returns the same boxes in the same order.
C21_Idempotent ==
    nms.pc = "returned twice" => nms.again = nms.selected

\* two boxes of equal confidence that do not suppress each other were
\* returned, and returned again
C21_Witness ==
    /\ nms.pc = "returned twice"
    /\ Len(nms.boxes) = 3
    /\ Len(nms.selected) = 2
    /\ nms.selected[1].confidence = nms.selected[2].confidence
    /\ nms.again = nms.selected

\* the places of the list s, as the set of the objects in it
C22_Ids(s) == {s[i].id : i \in 1..Len(s)}

\* C22: nonMaxSuppression is greedy suppression: the output consists of
\* input boxes, each at most once, in descending order of confidence; it
\* contains a box of the highest confidence; and an input box is absent
\* exactly when a kept box of greater or equal confidence overlaps it with an
\* IoU above the threshold; the input list is in its original order.
C22_Greedy ==
    nms.pc = "returned" =>
        LET in == nms.boxes
            out == nms.selected
        IN  /\ \A i \in 1..Len(in) : in[i].id = i
            /\ \A i \in 1..Len(out) : out[i] = in[out[i].id]
            /\ \A i \in 1..Len(out) : \A j \in 1..Len(out) :
                 i < j => /\ out[i].id # out[j].id
                          /\ out[i].confidence >= out[j].confidence
            /\ in # <<>> =>
                 \E k \in 1..Len(out) : \A i \in 1..Len(in) :
                     out[k].confidence >= in[i].confidence
            /\ \A i \in 1..Len(in) :
                 i \notin C22_Ids(out) <=>
                     \E k \in 1..Len(out) :
                         /\ out[k].id # i
                         /\ out[k].confidence >= in[i].confidence
                         /\ IouAbove(out[k], in[i], NmsThresholdPct)

\* of two overlapping boxes the one of confidence 0.9, second in the input,
\* is the only one kept
C22_Witness ==
    /\ nms.pc = "returned"
    /\ Len(nms.boxes) = 2
    /\ nms.boxes[1].confidence = 5
    /\ nms.boxes[2].confidence = 9
    /\ IouAbove(nms.boxes[1], nms.boxes[2], NmsThresholdPct)
    /\ nms.selected = <<nms.boxes[2]>>

\* cells of the grid of one stride
C28_Cells(s) == (grid.modelWidth \div s) * (grid.modelHeight \div s)

\* cells of the first k strides
RECURSIVE C28_Offset(_)
C28_Offset(k) ==
    IF k = 0 THEN 0 ELSE C28_Offset(k - 1) + C28_Cells(grid.strides[k])

\* C28: after prepareGrids the grid holds exactly the sum over the strides
\* of floor(W/s) * floor(H/s) proposals, and the proposal of the k-th stride
\* s and cell (x, y) is the one at offset(s) + y * floor(W/s) + x, counted
\* from 0; a second call leaves the same grid.
C28_GridLayout ==
    grid.builds >= 1 =>
        /\ grid.numProposals = C28_Offset(Len(grid.strides))
        /\ Len(grid.gridX) = grid.numProposals
        /\ Len(grid.gridY) = grid.numProposals
        /\ Len(grid.stridePerProposal) = grid.numProposals
        /\ \A k \in 1..Len(grid.strides) :
             LET s == grid.strides[k]
                 nx == grid.modelWidth \div s
                 ny == grid.modelHeight \div s
             IN  \A y \in 0..(ny - 1) : \A x \in 0..(nx - 1) :
                     LET i == C28_Offset(k - 1) + y * nx + x + 1
                     IN  /\ grid.gridX[i] = x
                         /\ grid.gridY[i] = y
                         /\ grid.stridePerProposal[i] = s

\* the 24 x 16 grid of the strides 8, 16, 32 was built twice: 6 + 1 + 0 cells
C28_Witness ==
    /\ grid.builds = 2
    /\ grid.modelWidth = 24
    /\ grid.modelHeight = 16
    /\ grid.strides = Strides
    /\ grid.numProposals = 7
    /\ grid.gridX = <<0, 1, 2, 0, 1, 2, 0>>
    /\ grid.gridY = <<0, 0, 0, 1, 1, 1, 0>>

\* C27: detectFaces on an instance with no session (never initialized, or
\* initialize failed) throws the not-initialized error without running
\* inference, and the session and the proposal grid are set together.
C27_NotReady ==
    /\ (~det.session /\ det.calls > 0) =>
          /\ det.outcome = "thrown"
          /\ det.error = MsgNotInitialized
          /\ ~det.ran
          /\ det.result = <<>>
    /\ det.failed => ~det.session
    /\ det.ran => det.session
    /\ IF det.session
       THEN /\ det.numProposals > 0
            /\ det.numProposals = DetGrid(det).numProposals
            /\ Len(det.gridX) = det.numProposals
            /\ Len(det.gridY) = det.numProposals
            /\ Len(det.stridePerProposal) = det.numProposals
       ELSE /\ det.numProposals = 0
            /\ det.gridX = <<>>

C27_Witness ==
    /\ det.failed
    /\ det.calls = 2
    /\ det.outcome = "thrown"
    /\ det.error = MsgNotInitialized

C24_InsideImage ==
    det.outcome = "returned" =>
        \A k \in 1..Len(det.result) :
            LET b == det.result[k]
            IN  /\ 0 <= b.x
                /\ 0 <= b.y
                /\ b.x + b.w <= det.imageWidth * 10
                /\ b.y + b.h <= det.imageHeight * 10
                /\ b.w >= 10
                /\ b.h >= 10

\* C25: an output tensor with fewer than five channels makes the call fail.
C25_FewChannelsFail ==
    (det.ran /\ det.tensor.channels < 5) => det.outcome = "thrown"

\* C26: an output tensor whose proposal axis differs from the grid makes the
\* call fail and yields no boxes.
C26_ProposalAxisChecked ==
    (det.ran /\ det.tensor.proposals # det.numProposals) =>
        (det.outcome = "thrown" /\ det.result = <<>>)

\* C29: what a call returns is what an instance that decoded nothing before
\* returns for the same tensor and image size.
C29_PureDecode ==
    det.outcome = "returned" =>
        det.result \in ProcessOutput([det EXCEPT !.channels = det.tensor.channels],
                                     det.tensor.data, det.imageWidth, det.imageHeight)

\* the messages App shows for each way an upload fails
C30_TransportTexts == {ErrorText(FetchError(k)) : k \in FetchFailures}
C30_StatusTexts ==
    {ErrorText(ResponseError(resp)) :
        resp \in {x \in Responses : x.kind \in {"status", "status_empty"}}}
C30_MalformedTexts ==
    {ErrorText(ResponseError(resp)) :
        resp \in {x \in Responses : x.kind \in {"nonjson", "badjson"}}}

\* an upload that published nothing ended in Error with one of the messages
\* and the guard released
C30_FailedUploadStep ==
    \A r \in At({"upload"}) :
        (Moved(r) /\ messages' = messages) =>
            /\ status' = Error
            /\ error' \in C30_TransportTexts \cup C30_StatusTexts \cup C30_MalformedTexts
            /\ emotions' = Null
            /\ ~isUploadingRef'
            /\ NumInCycle' = 0

C31_CycleEnds(r) ==
    /\ Moved(r)
    /\ \/ r.pc \in CyclePcs /\ NumInCycle' < NumInCycle
       \/ /\ r.pc \in {"warmup", "interval"}
          /\ LoopCondition
          /\ ~GuardBusy
          /\ NumInCycle' = NumInCycle

\* C31: when a cycle of the loop that was started by enabling capture has
\* finished, by whichever exit, isStarting is false.
C31_StartingCleared ==
    [][\A r \in Live : (r.starting /\ C31_CycleEnds(r)) => ~isStarting']_vars

\* C32: while status is Initializing capture is disabled and no activation
\* of the capture loop exists, a request to enable having set only the error
\* message; no activation exists while the onboarding screen is shown.
C32_NoCycleBeforeReady ==
    /\ status = Initializing =>
          /\ ~isEnabled
          /\ ~isStarting
          /\ loops = EmptyBag
          /\ ~runLoopRef
          /\ ~enabledRef
          /\ ~isUploadingRef
          /\ error \in {Null, MsgStillInitializing}
          /\ emotions = Null
          /\ messages = <<>>
    /\ showOnboarding =>
          /\ ~isEnabled
          /\ loops = EmptyBag
          /\ ~isUploadingRef

\* enabling was asked for while the model was loading
C32_Witness ==
    /\ status = Initializing
    /\ phase = "loading"
    /\ error = MsgStillInitializing
    /\ ~isEnabled

\* C33: whenever no cycle holds the in-flight guard, status is neither
\* Detecting nor Uploading.
C33_StatusReflectsWork ==
    ~isUploadingRef => status \notin {Detecting, Uploading}

\* status, error and emotions as handleToggle(false) leaves them
C34_Quiescent == status = Idle /\ error = Null /\ emotions = Null

\* a step that ends with capture disabled and no cycle in flight: the
\* disable itself, the end of a cycle that was in flight when capture was
\* disabled, or any step taken from the quiescent state
C34_DisabledStep ==
    (/\ ~isEnabled'
     /\ NumInCycle' = 0
     /\ isEnabled \/ NumInCycle > 0 \/ C34_Quiescent)
        => C34_Quiescent'

\* C34: once capture is disabled and no cycle is in flight, status is Idle,
\* error is null and emotions is null, and they stay so until capture is
\* enabled again.
C34_QuiescentAfterDisable == [][C34_DisabledStep]_vars

\* the upload of some activation has succeeded in this step
C35_UploadSucceeded ==
    \E r \in At({"upload"}) : Moved(r) /\ status' # Error

\* one message is appended by a successful upload, none by any other step
C35_MessagesStep ==
    IF C35_UploadSucceeded
    THEN /\ Len(messages') = Len(messages) + 1
         /\ SubSeq(messages', 1, Len(messages)) = messages
    ELSE messages' = messages

C36_OneRequest ==
    /\ req.fetches = IF req.pc = "fetch" THEN 1 ELSE 0
    /\ Len(req.files) <= Len(req.faces)
    /\ Len(req.outcomes) = Len(req.files)
    /\ \A k \in 1..Len(req.files) :
          /\ req.files[k].name = <<"face_", k - 1, ".jpg">>
          /\ req.files[k].blob.face = k - 1
          /\ IF req.outcomes[k] = "blob"
             THEN req.files[k].blob.resized /\ req.files[k].blob.type = Jpeg
             ELSE /\ ~req.files[k].blob.resized
                  /\ req.files[k].blob.type = req.faces[k]
    /\ req.pc = "fetch" =>
          /\ Len(req.files) = Len(req.faces)
          /\ req.form = [context |-> req.context, face_count |-> Len(req.faces)]
    /\ req.pc = "thrown" => (req.faces = <<>> /\ req.error = MsgNoFaces)

\* a request of three faces, the resize of the second and third having failed
C36_Witness ==
    /\ req.pc = "fetch"
    /\ req.faces = <<Jpeg, Webp, Webp>>
    /\ req.outcomes = <<"blob", "rejected", "null">>
    /\ Len(req.files) = 3

====
